---------------------------- MODULE Spec2Model ----------------------------
(***************************************************************************)
(* discord-ext-subcommands: the MultiFilesSubcommandsManager of            *)
(* discord/ext/subcommands/core.py, driven by cog load / unload events,    *)
(* the unresolved report and the teardown.                                 *)
(*                                                                         *)
(* The cogs are those of examples/extensions (prefix.py, slash.py,         *)
(* hybrid.py), and one more, Crossed, whose declarations name groups of    *)
(* another class than their command.  The host (discord.py) is modelled by what its calls do to  *)
(* the objects core.py reads: a command's parent, a group's children, the  *)
(* bot's flat registry and the application command tree.                   *)
(*                                                                         *)
(* Objects.  A command object is [cb, n]: the callback it wraps and the    *)
(* number of the cog instance it belongs to.  Every instance of a cog has  *)
(* its own command objects, and the objects of an earlier instance stay    *)
(* where they were put: in a group, in the bot, in the tree.  The          *)
(* _Subcommand of a callback is one object for all instances; its          *)
(* _command is the command object that was walked last.                    *)
(***************************************************************************)
EXTENDS Integers, Sequences, FiniteSets, TLC

\* The number of events (loads, unloads, teardown) of a run; the report,
\* which changes nothing, ends it.
MaxEvents == 4

(***************************************************************************)
(* The cogs and commands of the examples.                                  *)
(***************************************************************************)
Cogs ==
  {"Groups", "UserInfo", "Utilities", "SlashCog", "ServerCommands", "HybridGroups",
   "HybridChannelCommands", "Crossed"}

\* A cog with two annotated commands of one name: a prefix command "info"
\* for the group user and an application command "info" for the group server.
\* Only the runs of SpecTwins load it.
TwinCog == "Twins"

\* Every command object: the callbacks of the cogs, and for a hybrid command
\* the application command the host derives from it ("...@app").
Cmds ==
  {"user", "user_help", "user_info", "user_avatar", "user_utils",
   "user_utils_whenjoin",
   "server", "server_info", "server_settings", "server_banner", "server_icon",
   "channel", "channel_help", "channel@app", "channel_help@app",
   "channel_info", "channel_info@app", "channel_topic", "channel_topic@app",
   "user_tag", "user_tag@app", "channel_pin", "server_ping", "user_note",
   "info_prefix", "info_slash"}

\* command.name
Name ==
  [c \in Cmds |->
     CASE c = "user" -> "user"
       [] c = "user_help" -> "help"
       [] c = "user_info" -> "info"
       [] c = "user_avatar" -> "avatar"
       [] c = "user_utils" -> "utils"
       [] c = "user_utils_whenjoin" -> "whenjoin"
       [] c = "server" -> "server"
       [] c = "server_info" -> "info"
       [] c = "server_settings" -> "settings"
       [] c = "server_banner" -> "banner"
       [] c = "server_icon" -> "icon"
       [] c = "channel" -> "channel"
       [] c = "channel_help" -> "help"
       [] c = "channel@app" -> "channel"
       [] c = "channel_help@app" -> "help"
       [] c \in {"channel_info", "channel_info@app", "info_prefix", "info_slash"} -> "info"
       [] c \in {"user_tag", "user_tag@app"} -> "tag"
       [] c \in {"channel_topic", "channel_topic@app"} -> "topic"
       [] c = "channel_pin" -> "pin"
       [] c = "server_ping" -> "ping"
       [] c = "user_note" -> "note"]

\* The class of the command object: commands.Command ("command"),
\* commands.Group ("group"), commands.HybridCommand, commands.HybridGroup,
\* app_commands.Command ("app_command"), app_commands.Group ("app_group").
Kind ==
  [c \in Cmds |->
     CASE c \in {"user", "user_utils"} -> "group"
       [] c \in {"user_help", "user_info", "user_avatar", "user_utils_whenjoin",
                 "channel_pin", "server_ping", "info_prefix"} -> "command"
       [] c \in {"server", "server_settings", "channel@app"} -> "app_group"
       [] c \in {"server_info", "server_banner", "server_icon", "channel_help@app",
                 "channel_info@app", "channel_topic@app", "user_tag@app", "user_note",
                 "info_slash"}
            -> "app_command"
       [] c = "channel" -> "hybrid_group"
       [] c \in {"channel_help", "channel_info", "channel_topic", "user_tag"}
            -> "hybrid_command"]

\* The cog (class) that declares the command.
CogOf ==
  [c \in Cmds |->
     CASE c \in {"user", "user_help"} -> "Groups"
       [] c \in {"user_info", "user_avatar", "user_utils"} -> "UserInfo"
       [] c = "user_utils_whenjoin" -> "Utilities"
       [] c \in {"server", "server_info", "server_settings"} -> "SlashCog"
       [] c \in {"server_banner", "server_icon"} -> "ServerCommands"
       [] c \in {"channel_info", "channel_info@app", "channel_topic", "channel_topic@app"}
            -> "HybridChannelCommands"
       [] c \in {"user_tag", "user_tag@app", "channel_pin", "server_ping", "user_note"}
            -> "Crossed"
       [] c \in {"info_prefix", "info_slash"} -> "Twins"
       [] OTHER -> "HybridGroups"]

\* The group a command is a child of in the class body (@user.command(),
\* parent=server), "none" for a top-level command.
ClassParent ==
  [c \in Cmds |->
     CASE c = "user_help" -> "user"
       [] c \in {"server_info", "server_settings"} -> "server"
       [] c = "channel_help" -> "channel"
       [] c = "channel_help@app" -> "channel@app"
       [] OTHER -> "none"]

\* The error handler the class body gives a command (@user.error), "none"
\* without one.
ClassHandler ==
  [c \in Cmds |-> IF c = "user" THEN "user_error" ELSE "none"]

\* The application command the host derives from a hybrid command
\* (HybridGroup.app_command), "none" for the others.
AppTwin ==
  [c \in Cmds |->
     CASE c = "channel" -> "channel@app"
       [] c = "channel_help" -> "channel_help@app"
       [] c = "channel_info" -> "channel_info@app"
       [] c = "channel_topic" -> "channel_topic@app"
       [] c = "user_tag" -> "user_tag@app"
       [] OTHER -> "none"]

IsTwin(c) == \E h \in Cmds : AppTwin[h] = c

\* @subcommand(group_name): the target group name, as its space-separated
\* segments; <<>> for a command that is not annotated.
Target ==
  [c \in Cmds |->
     CASE c \in {"user_info", "user_avatar", "user_utils", "user_tag", "user_note",
                 "info_prefix"}
            -> <<"user">>
       [] c = "user_utils_whenjoin" -> <<"user", "utils">>
       [] c \in {"server_banner", "server_icon", "server_ping", "info_slash"}
            -> <<"server">>
       [] c \in {"channel_info", "channel_topic", "channel_pin"} -> <<"channel">>
       [] OTHER -> <<>>]

\* The commands that carry callback.__subcommand__ : one _Subcommand each.
Decls == {c \in Cmds : Target[c] # <<>>}

\* The order of the commands in the class body.
DefOrder ==
  <<"user", "user_help", "user_info", "user_avatar", "user_utils",
    "user_utils_whenjoin",
    "server", "server_info", "server_settings", "server_banner", "server_icon",
    "channel", "channel_help", "channel@app", "channel_help@app",
    "channel_info", "channel_info@app", "channel_topic", "channel_topic@app",
    "user_tag", "user_tag@app", "channel_pin", "server_ping", "user_note",
    "info_prefix", "info_slash">>

IsPrefixKind(c) == Kind[c] \in {"command", "group", "hybrid_command", "hybrid_group"}
IsAppKind(c) == Kind[c] \in {"app_command", "app_group"}
IsGroupKind(c) == Kind[c] \in {"group", "hybrid_group", "app_group"}

\* The characters of a name, as code points (str comparison and difflib
\* work on them).
Chars(n) ==
  CASE n = "user" -> <<117, 115, 101, 114>>
    [] n = "help" -> <<104, 101, 108, 112>>
    [] n = "info" -> <<105, 110, 102, 111>>
    [] n = "utils" -> <<117, 116, 105, 108, 115>>
    [] n = "whenjoin" -> <<119, 104, 101, 110, 106, 111, 105, 110>>
    [] n = "server" -> <<115, 101, 114, 118, 101, 114>>
    [] n = "settings" -> <<115, 101, 116, 116, 105, 110, 103, 115>>
    [] n = "banner" -> <<98, 97, 110, 110, 101, 114>>
    [] n = "avatar" -> <<97, 118, 97, 116, 97, 114>>
    [] n = "icon" -> <<105, 99, 111, 110>>
    [] n = "topic" -> <<116, 111, 112, 105, 99>>
    [] n = "channel" -> <<99, 104, 97, 110, 110, 101, 108>>
    [] n = "tag" -> <<116, 97, 103>>
    [] n = "pin" -> <<112, 105, 110>>
    [] n = "ping" -> <<112, 105, 110, 103>>
    [] n = "note" -> <<110, 111, 116, 101>>

\* ' '.join(segments), as code points.
RECURSIVE JoinChars(_)
JoinChars(segs) ==
  IF segs = <<>> THEN <<>>
  ELSE IF Len(segs) = 1 THEN Chars(segs[1])
  ELSE Chars(segs[1]) \o <<32>> \o JoinChars(Tail(segs))

(***************************************************************************)
(* dict: an insertion-ordered sequence of [k, v] with distinct keys.       *)
(***************************************************************************)
DictHas(d, k) == \E i \in 1..Len(d) : d[i].k = k

DictGet(d, k) == d[CHOOSE i \in 1..Len(d) : d[i].k = k].v

\* d[k] = v : an existing key keeps its place, a new key goes last.
DictSet(d, k, v) ==
  IF DictHas(d, k)
  THEN [i \in 1..Len(d) |-> IF d[i].k = k THEN [k |-> k, v |-> v] ELSE d[i]]
  ELSE Append(d, [k |-> k, v |-> v])

\* del d[k] / d.pop(k, None)
DictDel(d, k) == SelectSeq(d, LAMBDA e : e.k # k)

\* defaultdict(dict): d[k] of a missing key is a new empty dict, stored.
DefaultGet(d, k) == IF DictHas(d, k) THEN DictGet(d, k) ELSE <<>>

\* d[cog][name] = sub on a defaultdict(dict)
DictSet2(d, cog, name, sub) == DictSet(d, cog, DictSet(DefaultGet(d, cog), name, sub))

\* del d[cog][name]
DictDel2(d, cog, name) == DictSet(d, cog, DictDel(DictGet(d, cog), name))

\* Every _Subcommand held in the dict of dicts.
RECURSIVE DictSubs(_)
DictSubs(d) ==
  IF d = <<>> THEN {}
  ELSE {Head(d).v[i].v : i \in 1..Len(Head(d).v)} \cup DictSubs(Tail(d))

(***************************************************************************)
(* Command objects.                                                        *)
(***************************************************************************)
\* None
NoRef == [cb |-> "none", n |-> 0]

\* The command with callback cb of the n-th instance made of its cog; n = 0
\* is the object of the class body, which the instances are copied from.
Object(cb, n) == [cb |-> cb, n |-> n]

NameOf(o) == Name[o.cb]

KindOf(o) == Kind[o.cb]

\* HybridGroup.app_command / HybridCommand.app_command of the object, None
\* for the other classes.
TwinOf(o) == IF AppTwin[o.cb] = "none" THEN NoRef ELSE Object(AppTwin[o.cb], o.n)

(***************************************************************************)
(* difflib.get_close_matches(word, possibilities, n=1, cutoff=0.0)         *)
(***************************************************************************)
\* The number of equal elements of a[i..] and b[j..] before ahi / bhi.
RECURSIVE CommonLen(_, _, _, _, _, _)
CommonLen(a, b, i, j, ahi, bhi) ==
  IF i < ahi /\ j < bhi /\ a[i] = b[j]
  THEN 1 + CommonLen(a, b, i + 1, j + 1, ahi, bhi)
  ELSE 0

\* SequenceMatcher.find_longest_match(alo, ahi, blo, bhi) without junk: the
\* longest block a[i:i+k] = b[j:j+k]; of those the one that starts earliest
\* in a, and of those the one that starts earliest in b.  (ahi, bhi are
\* exclusive.)
FindLongestMatch(a, b, alo, ahi, blo, bhi) ==
  LET pairs == (alo..(ahi - 1)) \X (blo..(bhi - 1))
      lens == [p \in pairs |-> CommonLen(a, b, p[1], p[2], ahi, bhi)]
      best == IF pairs = {} THEN 0
              ELSE CHOOSE k \in {lens[p] : p \in pairs} : \A q \in pairs : lens[q] <= k
      longest == {p \in pairs : lens[p] = best}
  IN  IF best = 0 THEN [i |-> alo, j |-> blo, k |-> 0]
      ELSE LET p == CHOOSE p \in longest :
                      \A q \in longest : p[1] < q[1] \/ (p[1] = q[1] /\ p[2] <= q[2])
           IN  [i |-> p[1], j |-> p[2], k |-> best]

\* The total size of SequenceMatcher.get_matching_blocks(): the longest
\* block, then the same to its left and to its right.
RECURSIVE MatchingSize(_, _, _, _, _, _)
MatchingSize(a, b, alo, ahi, blo, bhi) ==
  LET m == FindLongestMatch(a, b, alo, ahi, blo, bhi)
  IN  IF m.k = 0 THEN 0
      ELSE m.k
           + (IF alo < m.i /\ blo < m.j
              THEN MatchingSize(a, b, alo, m.i, blo, m.j) ELSE 0)
           + (IF m.i + m.k < ahi /\ m.j + m.k < bhi
              THEN MatchingSize(a, b, m.i + m.k, ahi, m.j + m.k, bhi) ELSE 0)

\* SequenceMatcher(None, a, b).ratio() = 2.0 * M / T, kept as the fraction
\* [m, t] (1.0 when both are empty).
Ratio(a, b) ==
  IF Len(a) + Len(b) = 0 THEN [m |-> 1, t |-> 1]
  ELSE [m |-> 2 * MatchingSize(a, b, 1, Len(a) + 1, 1, Len(b) + 1), t |-> Len(a) + Len(b)]

RatioLess(r1, r2) == r1.m * r2.t < r2.m * r1.t

\* x < y on str: by code points, a proper prefix first.
RECURSIVE StrLess(_, _)
StrLess(x, y) ==
  IF y = <<>> THEN FALSE
  ELSE IF x = <<>> THEN TRUE
  ELSE IF Head(x) # Head(y) THEN Head(x) < Head(y)
  ELSE StrLess(Tail(x), Tail(y))

\* (ratio, x) < (ratio', y): the order of the tuples heapq.nlargest sorts.
ScoreLess(word, x, y) ==
  LET rx == Ratio(JoinChars(x), word)
      ry == Ratio(JoinChars(y), word)
  IN  RatioLess(rx, ry) \/ (~RatioLess(ry, rx) /\ StrLess(JoinChars(x), JoinChars(y)))

\* get_close_matches(word, names, n=1, cutoff=0.0): every name passes the
\* cutoff; the result is <<the best scored name>>, or <<>> without names.
\* names: a set of qualified names (segments), word: code points.
GetCloseMatches(word, names) ==
  IF names = {} THEN <<>>
  ELSE <<CHOOSE x \in names : \A y \in names : ~ScoreLess(word, x, y)>>

(***************************************************************************)
(* The state.                                                              *)
(***************************************************************************)
\* The cogs of all the runs.
AllCogs == Cogs \cup {TwinCog}

VARIABLES
  loaded,         \* bot.cogs: the names of the cogs the host has loaded
  inst,           \* the instance of each cog that was loaded last (0: none yet)
  gen,            \* the number of instances made of each cog
  parent,         \* command.parent of every command object
  children,       \* the children of the group objects: [g, c], in insertion order
  bot_commands,   \* bot.all_commands: the flat registry of prefix / hybrid commands
  tree_commands,  \* bot.tree: its top-level application commands
  commands,       \* self.__commands: cog name -> (command name -> _Subcommand)
  not_found,      \* self._not_found: the same shape, the still unresolved ones
  sub_group,      \* _Subcommand._group of every declaration
  sub_command,    \* _Subcommand._command of every declaration
  on_error,       \* command.on_error of every command object ("none": no handler)
  check_group_type,          \* the option of the manager
  copy_group_error_handler,  \* the option of the manager
  installed,      \* bot.add_cog / bot.remove_cog are the manager's wrappers
  inflight,       \* the calls of add_cog and remove_cog suspended in the original
  bot_class,      \* the class of the object the manager is constructed on
  manager,        \* "none" before __init__, then "constructed" or "failed"
  subcommand_attr,  \* callback.__subcommand__ of the objects a class body decorates
  decorated,      \* the last @subcommand(group_name) call and what it raised
  result,         \* the outcome of the last event
  history,        \* the events so far
  seen            \* the groups registered at the end of some event so far

vars == <<loaded, inst, gen, parent, children, bot_commands, tree_commands,
          commands, not_found, sub_group, sub_command, on_error, check_group_type,
          copy_group_error_handler, installed, inflight, bot_class, manager,
          subcommand_attr, decorated, result, history, seen>>

\* No exception.
NoErr == [kind |-> "none", cmd |-> "none"]

\* What the operations below work on: the objects, the registry, and what
\* the event did so far (err: the exception raised; calls: the host calls
\* that attach, detach or unregister; attempts: the "ADD" calls).
Cur ==
  [gen |-> gen, parent |-> parent, children |-> children,
   bot_commands |-> bot_commands, tree_commands |-> tree_commands,
   commands |-> commands, not_found |-> not_found, sub_group |-> sub_group,
   sub_command |-> sub_command, on_error |-> on_error,
   err |-> NoErr, ret |-> "None", calls |-> <<>>, attempts |-> <<>>]

(***************************************************************************)
(* The decorator, on the objects of a class body.                          *)
(***************************************************************************)
\* The number of @subcommand calls of a run of the decorator.
MaxDecorations == 2

\* What a class body hands to @subcommand(...): a command or group of each
\* class, top-level or the child of a group, or a plain function.
Decorated ==
  {"command", "group", "hybrid_command", "hybrid_group", "app_command", "app_group",
   "child_command", "child_app_command", "function"}

\* The class of the object, "function" for what is not a command.
DecoratedKind(o) ==
  CASE o = "child_command" -> "command"
    [] o = "child_app_command" -> "app_command"
    [] OTHER -> o

\* command.parent is set: the object was made by @group.command().
DecoratedHasParent(o) == o \in {"child_command", "child_app_command"}

\* The values a group_name can be: strings, or something else.
GroupNames ==
  {[type |-> "str", value |-> "user"], [type |-> "str", value |-> "user utils"],
   [type |-> "int", value |-> "42"], [type |-> "NoneType", value |-> "None"]}

\* No __subcommand__ attribute.
NoAttr == [group_name |-> "none", command |-> "none", group |-> "none"]

NoDecoration ==
  [target |-> "none", group_name |-> [type |-> "none", value |-> "none"], err |-> "none"]

\* subcommand(group_name)(command): [err, attr], the exception raised and
\* the __subcommand__ attributes afterwards.  An app_commands.Group has no
\* callback, so the assignment to command.callback.__subcommand__ raises
\* AttributeError.
Decorator(attr, group_name, command) ==
  IF DecoratedKind(command) = "function"
  THEN [err |-> "TypeError", attr |-> attr]
  ELSE IF group_name.type # "str"
  THEN [err |-> "TypeError", attr |-> attr]
  ELSE IF DecoratedHasParent(command)
  THEN [err |-> "ValueError", attr |-> attr]
  ELSE IF DecoratedKind(command) = "app_group"
  THEN [err |-> "AttributeError", attr |-> attr]
  ELSE [err |-> "none",
        attr |-> [attr EXCEPT ![command] =
                    [group_name |-> group_name.value, command |-> command,
                     group |-> "none"]]]

(***************************************************************************)
(* The host: groups, registries, cogs.                                     *)
(***************************************************************************)
\* Whether the group object g has a child called n (name in all_commands /
\* _children).
HasChildNamed(s, g, n) ==
  \E i \in 1..Len(s.children) : s.children[i].g = g /\ NameOf(s.children[i].c) = n

\* group.remove_command(name): pops the name; command.parent stays.  A
\* HybridGroup pops the name from its application command group as well.
GroupRemoveCommand(s, g, n) ==
  [s EXCEPT !.children =
     SelectSeq(@, LAMBDA l : ~(l.g \in {g, TwinOf(g)} /\ NameOf(l.c) = n))]

\* bot.tree.remove_command(name)
TreeRemoveCommand(s, n) ==
  [s EXCEPT !.tree_commands = {o \in @ : NameOf(o) # n}]

\* bot.remove_command(name): pops the name; a hybrid command takes its
\* application command out of the tree as well.
BotRemoveCommand(s, n) ==
  LET hit == {o \in s.bot_commands : NameOf(o) = n}
      s1 == [s EXCEPT !.bot_commands = @ \ hit]
  IN  IF \E o \in hit : TwinOf(o) # NoRef THEN TreeRemoveCommand(s1, n) ELSE s1

\* command.root_parent of an application command: the parent of its parent,
\* else its parent, None for a top-level command.
RootParent(s, o) ==
  IF s.parent[o] = NoRef THEN NoRef
  ELSE IF s.parent[s.parent[o]] = NoRef THEN s.parent[o]
  ELSE s.parent[s.parent[o]]

\* bot.tree.add_command(command): the tree stores command.root_parent, or
\* the command when it has none, under its name; CommandAlreadyRegistered
\* when the tree has the name.
TreeAddCommand(s, o) ==
  LET root == IF RootParent(s, o) = NoRef THEN o ELSE RootParent(s, o)
  IN  IF \E r \in s.tree_commands : NameOf(r) = NameOf(root)
      THEN [s EXCEPT !.err = [kind |-> "CommandAlreadyRegistered", cmd |-> "none"]]
      ELSE [s EXCEPT !.tree_commands = @ \cup {root}]

\* bot.add_command(command): CommandRegistrationError when the bot has the
\* name; else the bot stores the command, and then the tree the application
\* command of a hybrid command.
BotAddCommand(s, o) ==
  IF \E r \in s.bot_commands : NameOf(r) = NameOf(o)
  THEN [s EXCEPT !.err = [kind |-> "CommandRegistrationError", cmd |-> "none"]]
  ELSE LET s1 == [s EXCEPT !.bot_commands = @ \cup {o}]
       IN  IF TwinOf(o) = NoRef THEN s1 ELSE TreeAddCommand(s1, TwinOf(o))

\* app_commands.Group.add_command(command): raises TypeError for what is
\* not an application command, ValueError for a group under a nested group
\* and CommandAlreadyRegistered for a taken name; else stores the child and
\* sets command.parent.
AppGroupAddCommand(s, g, o) ==
  IF ~IsAppKind(o.cb)
  THEN [s EXCEPT !.err = [kind |-> "TypeError", cmd |-> o.cb]]
  ELSE IF KindOf(o) = "app_group" /\ s.parent[g] # NoRef
  THEN [s EXCEPT !.err = [kind |-> "ValueError", cmd |-> o.cb]]
  ELSE IF HasChildNamed(s, g, NameOf(o))
  THEN [s EXCEPT !.err = [kind |-> "CommandAlreadyRegistered", cmd |-> o.cb]]
  ELSE [s EXCEPT !.children = Append(@, [g |-> g, c |-> o]),
                 !.parent[o] = g,
                 !.calls = Append(@, [call |-> "attach", cmd |-> o, grp |-> g])]

\* HybridGroup.add_command(command): raises TypeError for what is not a
\* hybrid command and ValueError for a hybrid group under a nested group;
\* then the application command goes under the one of the group, then
\* command.parent is set and the name is looked up as in a Group.
HybridGroupAddCommand(s, g, o) ==
  IF KindOf(o) \notin {"hybrid_command", "hybrid_group"}
  THEN [s EXCEPT !.err = [kind |-> "TypeError", cmd |-> o.cb]]
  ELSE IF KindOf(o) = "hybrid_group" /\ s.parent[g] # NoRef
  THEN [s EXCEPT !.err = [kind |-> "ValueError", cmd |-> o.cb]]
  ELSE LET s1 == IF HasChildNamed(s, TwinOf(g), NameOf(o))
                 THEN [s EXCEPT !.err = [kind |-> "CommandAlreadyRegistered", cmd |-> o.cb]]
                 ELSE [s EXCEPT !.children = Append(@, [g |-> TwinOf(g), c |-> TwinOf(o)]),
                                !.parent[TwinOf(o)] = TwinOf(g)]
       IN  IF s1.err # NoErr THEN s1
           ELSE IF HasChildNamed(s1, g, NameOf(o))
           THEN [s1 EXCEPT !.parent[o] = g,
                           !.err = [kind |-> "CommandRegistrationError", cmd |-> o.cb]]
           ELSE [s1 EXCEPT !.parent[o] = g,
                           !.children = Append(@, [g |-> g, c |-> o]),
                           !.calls = Append(@, [call |-> "attach", cmd |-> o, grp |-> g])]

\* commands.Group.add_command(command): raises TypeError for what is not a
\* prefix or hybrid command; sets command.parent, then raises
\* CommandRegistrationError if the name is taken, else stores the child.
GroupAddCommand(s, g, o) ==
  IF ~IsPrefixKind(o.cb)
  THEN [s EXCEPT !.err = [kind |-> "TypeError", cmd |-> o.cb]]
  ELSE LET s1 == [s EXCEPT !.parent[o] = g]
       IN  IF HasChildNamed(s, g, NameOf(o))
           THEN [s1 EXCEPT !.err = [kind |-> "CommandRegistrationError", cmd |-> o.cb]]
           ELSE [s1 EXCEPT !.children = Append(@, [g |-> g, c |-> o]),
                           !.calls = Append(@, [call |-> "attach", cmd |-> o, grp |-> g])]

\* subcommand._group.add_command(subcommand._command): the method of the
\* class of the group.
AddCommand(s, g, o) ==
  IF KindOf(g) = "app_group" THEN AppGroupAddCommand(s, g, o)
  ELSE IF KindOf(g) = "hybrid_group" THEN HybridGroupAddCommand(s, g, o)
  ELSE GroupAddCommand(s, g, o)

\* The elements of seq that are in set, in the order of seq.
Only(seq, set) == SelectSeq(seq, LAMBDA c : c \in set)

\* The objects of the instance cog, [name, n], for the callbacks cs.
ObjectsOf(cog, cs) == [i \in 1..Len(cs) |-> Object(cs[i], cog.n)]

\* cog.__cog_commands__: the prefix and hybrid commands of the class, children
\* included, in the order of the class body.
CogCommands(cog) ==
  ObjectsOf(cog, Only(DefOrder, {c \in Cmds : CogOf[c] = cog.name /\ IsPrefixKind(c)}))

\* cog.__cog_app_commands__: the top-level application commands of the class.
CogAppCommands(cog) ==
  ObjectsOf(cog, Only(DefOrder, {c \in Cmds : /\ CogOf[c] = cog.name
                                              /\ IsAppKind(c)
                                              /\ ~IsTwin(c)
                                              /\ ClassParent[c] = "none"}))

\* The parent a new object starts with: the copy, in the same instance, of
\* its parent in the class body.
ClassRef(c, n) == IF ClassParent[c] = "none" THEN NoRef ELSE Object(ClassParent[c], n)

\* Cog(bot): a new instance holds copies of the commands of the class, with
\* the parents, children and error handlers of the class body.  The objects
\* of the earlier instances stay as they are, wherever they are registered.
NewInstance(s, cog) ==
  LET n == s.gen[cog] + 1
      mine == {c \in Cmds : CogOf[c] = cog}
      made == {Object(c, n) : c \in mine}
      born == Only(DefOrder, {c \in mine : ClassParent[c] # "none"})
  IN  [s EXCEPT
         !.gen[cog] = n,
         !.parent = [o \in DOMAIN @ \cup made |->
                       IF o \in made THEN ClassRef(o.cb, n) ELSE @[o]],
         !.on_error = [o \in DOMAIN @ \cup made |->
                         IF o \in made THEN ClassHandler[o.cb] ELSE @[o]],
         !.children = @ \o [i \in 1..Len(born) |->
                              [g |-> ClassRef(born[i], n), c |-> Object(born[i], n)]]]

\* The undo of Cog._inject: bot.remove_command(name) for the commands it
\* went through that have no parent.
RECURSIVE UndoInject(_, _)
UndoInject(s, done) ==
  IF done = <<>> THEN s
  ELSE UndoInject(IF s.parent[Head(done)] = NoRef
                  THEN BotRemoveCommand(s, NameOf(Head(done))) ELSE s,
                  Tail(done))

\* The first loop of Cog._inject: bot.add_command for each command without a
\* parent; when one raises, the ones before it are taken out again.
RECURSIVE InjectBot(_, _, _)
InjectBot(s, todo, done) ==
  IF todo = <<>> THEN s
  ELSE IF s.parent[Head(todo)] # NoRef
  THEN InjectBot(s, Tail(todo), Append(done, Head(todo)))
  ELSE LET s1 == BotAddCommand(s, Head(todo))
       IN  IF s1.err # NoErr THEN UndoInject(s1, done)
           ELSE InjectBot(s1, Tail(todo), Append(done, Head(todo)))

\* The last loop of Cog._inject: bot.tree.add_command for each application
\* command of the cog; when one raises, what was added before stays.
RECURSIVE InjectTree(_, _)
InjectTree(s, todo) ==
  IF todo = <<>> THEN s
  ELSE LET s1 == TreeAddCommand(s, Head(todo))
       IN  IF s1.err # NoErr THEN s1 ELSE InjectTree(s1, Tail(todo))

\* Cog._inject(bot)
Inject(s, cog) ==
  LET s1 == InjectBot(s, CogCommands(cog), <<>>)
  IN  IF s1.err # NoErr THEN s1 ELSE InjectTree(s1, CogAppCommands(cog))

\* Cog._eject(bot): bot.remove_command(name) for the prefix commands without a
\* parent, bot.tree.remove_command(name) for the top-level application
\* commands.
RECURSIVE RemoveNames(_, _, _)
RemoveNames(s, cmds, fromTree) ==
  IF cmds = <<>> THEN s
  ELSE RemoveNames(IF fromTree THEN TreeRemoveCommand(s, NameOf(Head(cmds)))
                   ELSE BotRemoveCommand(s, NameOf(Head(cmds))),
                   Tail(cmds), fromTree)

Eject(s, cog) ==
  RemoveNames(RemoveNames(s, SelectSeq(CogCommands(cog), LAMBDA o : s.parent[o] = NoRef), FALSE),
              CogAppCommands(cog), TRUE)

(***************************************************************************)
(* Walking the commands.                                                   *)
(***************************************************************************)
\* The children of the group object g, in insertion order.
KidsOf(s, g) ==
  LET ls == SelectSeq(s.children, LAMBDA l : l.g = g)
  IN  [i \in 1..Len(ls) |-> ls[i].c]

\* app_commands.Group.walk_commands(), after the command itself: the
\* children in the order of the dict, each followed by its own.
RECURSIVE AppWalk(_, _), AppWalkAll(_, _)
AppWalk(s, o) ==
  <<o>> \o (IF KindOf(o) = "app_group" THEN AppWalkAll(s, KidsOf(s, o)) ELSE <<>>)

AppWalkAll(s, os) ==
  IF os = <<>> THEN <<>> ELSE AppWalk(s, Head(os)) \o AppWalkAll(s, Tail(os))

\* GroupMixin.commands is set(all_commands.values()): its iteration order is
\* not fixed.  ord lists the annotated callbacks in the order this walk meets
\* their commands among their siblings (siblings have different names, so
\* different callbacks); the commands that are not annotated are not
\* recorded, so their place does not matter and they come first.
Arrange(kids, ord) ==
  LET plain == SelectSeq(kids, LAMBDA o : o.cb \notin Decls)
      met == Only(ord, {kids[i].cb : i \in 1..Len(kids)})
  IN  plain \o [i \in 1..Len(met) |->
                  kids[CHOOSE k \in 1..Len(kids) : kids[k].cb = met[i]]]

\* GroupMixin.walk_commands(), after the command itself.
RECURSIVE PrefixWalk(_, _, _), PrefixWalkAll(_, _, _)
PrefixWalk(s, o, ord) ==
  <<o>> \o (IF KindOf(o) \in {"group", "hybrid_group"}
            THEN PrefixWalkAll(s, Arrange(KidsOf(s, o), ord), ord) ELSE <<>>)

PrefixWalkAll(s, os, ord) ==
  IF os = <<>> THEN <<>>
  ELSE PrefixWalk(s, Head(os), ord) \o PrefixWalkAll(s, Tail(os), ord)

\* list(cog.walk_commands()) + list(cog.walk_app_commands()): the prefix
\* commands of the cog that have no parent, each with all below it, then the
\* top-level application commands, each with all below it.
WalkCog(s, cog, ord) ==
  PrefixWalkAll(s, SelectSeq(CogCommands(cog), LAMBDA o : s.parent[o] = NoRef), ord)
    \o AppWalkAll(s, CogAppCommands(cog))

\* The orders in which the walk of the cog can meet the annotated commands
\* that are children of a prefix group; the commands of the cog itself come
\* in the order of the class body.
SeqsOf(S) ==
  {f \in [1..Cardinality(S) -> S] : \A i, j \in 1..Cardinality(S) : i # j => f[i] # f[j]}

WalkOrders(s, cog) ==
  LET any == Only(DefOrder, Decls)
      met == WalkCog(s, cog, any)
  IN  SeqsOf({met[i].cb : i \in {j \in 1..Len(met) :
                                   /\ met[j].cb \in Decls
                                   /\ IsPrefixKind(met[j].cb)
                                   /\ s.parent[met[j]] # NoRef}})

\* Everything registered below the commands in roots.
RECURSIVE Reach(_, _)
Reach(s, roots) ==
  LET more == roots \cup {s.children[i].c : i \in
                {j \in 1..Len(s.children) : s.children[j].g \in roots}}
  IN  IF more = roots THEN roots ELSE Reach(s, more)

\* command.qualified_name: the names of the parents, then the name.
RECURSIVE QualifiedName(_, _)
QualifiedName(s, o) ==
  IF s.parent[o] = NoRef THEN <<NameOf(o)>>
  ELSE Append(QualifiedName(s, s.parent[o]), NameOf(o))

\* bot.tree.walk_commands(type=chat_input), the app_commands.Group of it.
TreeGroups(s) == {o \in Reach(s, s.tree_commands) : KindOf(o) = "app_group"}

\* bot.walk_commands(), the commands.Group and commands.HybridGroup of it.
PrefixGroups(s) == {o \in Reach(s, s.bot_commands) : KindOf(o) \in {"group", "hybrid_group"}}

\* __get_groups(command, check_command_type)
GetGroups(s, command, check_command_type) ==
  IF ~check_command_type THEN TreeGroups(s) \cup PrefixGroups(s)
  ELSE IF IsAppKind(command) THEN TreeGroups(s)
  ELSE PrefixGroups(s)

(***************************************************************************)
(* The manager.                                                            *)
(***************************************************************************)

\* A __find_group that returns the group it finds, whatever its class.
FindGroupAnyClass(s, sub) ==
  LET pool == GetGroups(s, sub, ~check_group_type)
      hits == {g \in pool : QualifiedName(s, g) = Target[sub]}
      tree == hits \cap TreeGroups(s)
  IN  [g |-> IF hits = {} THEN NoRef
             ELSE IF tree # {} THEN CHOOSE g \in tree : TRUE
             ELSE CHOOSE g \in hits : TRUE,
       err |-> "none"]

\* __find_group(subcommand): [g, err]; g = None when no group has the
\* qualified name; err = "TypeError" for a group of the wrong class.
FindGroup(s, sub) ==
  LET name == Target[sub]
      pool == GetGroups(s, sub, ~check_group_type)
      hits == {g \in pool : QualifiedName(s, g) = name}
      tree == hits \cap TreeGroups(s)
      \* discord.utils.get: the first of tree_commands + prefix_commands
      group == IF hits = {} THEN NoRef
               ELSE IF tree # {} THEN CHOOSE g \in tree : TRUE
               ELSE CHOOSE g \in hits : TRUE
  IN  IF group = NoRef THEN [g |-> NoRef, err |-> "none"]
      ELSE IF KindOf(group) = "app_group" /\ ~IsAppKind(sub)
      THEN [g |-> group, err |-> "TypeError"]
      ELSE IF KindOf(group) = "hybrid_group" /\ Kind[sub] \notin {"hybrid_command", "hybrid_group"}
      THEN [g |-> group, err |-> "TypeError"]
      ELSE IF KindOf(group) \in {"group", "hybrid_group"} /\ ~IsPrefixKind(sub)
      THEN [g |-> group, err |-> "TypeError"]
      ELSE [g |-> group, err |-> "none"]

\* The "ADD" call on a command that has a parent already.
Refuse(s, sub, group) ==
  [s EXCEPT !.err = [kind |-> "ValueError", cmd |-> sub],
            !.attempts = Append(@, [cmd |-> s.sub_command[sub], grp |-> group,
                                    hadParent |-> TRUE])]

\* An "ADD" that leaves the error handler of the command alone.
HandlePrefixHybridCommandAddNoCopy(s, sub, group) ==
  LET command == s.sub_command[sub]
  IN  IF s.parent[command] # NoRef THEN Refuse(s, sub, group)
      ELSE LET s1 == [s EXCEPT !.sub_group[sub] = group,
                               !.attempts = Append(@, [cmd |-> command, grp |-> group,
                                                       hadParent |-> FALSE]),
                               !.calls = Append(@, [call |-> "unregister", cmd |-> command,
                                                    grp |-> NoRef])]
           IN  AddCommand(BotRemoveCommand(s1, NameOf(command)), group, command)

\* __handle_prefix_hybrid_command("ADD", subcommand, group=group)
HandlePrefixHybridCommandAdd(s, sub, group) ==
  LET command == s.sub_command[sub]
  IN  IF s.parent[command] # NoRef THEN Refuse(s, sub, group)
      ELSE LET s1 == [s EXCEPT !.sub_group[sub] = group,
                               !.attempts = Append(@, [cmd |-> command, grp |-> group,
                                                       hadParent |-> FALSE]),
                               !.calls = Append(@, [call |-> "unregister", cmd |-> command,
                                                    grp |-> NoRef])]
               s2 == AddCommand(BotRemoveCommand(s1, NameOf(command)), group, command)
           IN  IF s2.err # NoErr THEN s2
               ELSE IF copy_group_error_handler /\ s2.on_error[group] # "none"
               THEN [s2 EXCEPT !.on_error[command] = s2.on_error[group]]
               ELSE s2

\* An "ADD" of an app command that does not look at the parent.
HandleAppCommandAddAnyway(s, sub, group) ==
  LET command == s.sub_command[sub]
      s1 == [s EXCEPT !.sub_group[sub] = group,
                      !.attempts = Append(@, [cmd |-> command, grp |-> group,
                                              hadParent |-> s.parent[command] # NoRef]),
                      !.calls = Append(@, [call |-> "unregister", cmd |-> command,
                                           grp |-> NoRef])]
  IN  AddCommand(TreeRemoveCommand(s1, NameOf(command)), group, command)

\* __handle_app_command("ADD", subcommand, group=group)
HandleAppCommandAdd(s, sub, group) ==
  LET command == s.sub_command[sub]
  IN  IF s.parent[command] # NoRef THEN Refuse(s, sub, group)
      ELSE LET s1 == [s EXCEPT !.sub_group[sub] = group,
                               !.attempts = Append(@, [cmd |-> command, grp |-> group,
                                                       hadParent |-> FALSE]),
                               !.calls = Append(@, [call |-> "unregister", cmd |-> command,
                                                    grp |-> NoRef])]
           IN  AddCommand(TreeRemoveCommand(s1, NameOf(command)), group, command)

\* A "REMOVE" that gives the command back to the bot or the tree.
HandleCommandRemoveReregister(s, sub) ==
  IF s.sub_group[sub] = NoRef THEN s
  ELSE [GroupRemoveCommand(s, s.sub_group[sub], Name[sub]) EXCEPT
          !.sub_group[sub] = NoRef,
          !.bot_commands = IF IsAppKind(sub) THEN @ ELSE @ \cup {s.sub_command[sub]},
          !.tree_commands = IF IsAppKind(sub) THEN @ \cup {s.sub_command[sub]} ELSE @,
          !.calls = Append(@, [call |-> "detach", cmd |-> s.sub_command[sub],
                               grp |-> s.sub_group[sub]])]

\* A "REMOVE" that does not look at _group first: None has no
\* remove_command.
HandleCommandRemoveUnchecked(s, sub) ==
  IF s.sub_group[sub] = NoRef
  THEN [s EXCEPT !.err = [kind |-> "AttributeError", cmd |-> sub]]
  ELSE [GroupRemoveCommand(s, s.sub_group[sub], Name[sub]) EXCEPT
          !.sub_group[sub] = NoRef,
          !.calls = Append(@, [call |-> "detach", cmd |-> s.sub_command[sub],
                               grp |-> s.sub_group[sub]])]

\* __handle_prefix_hybrid_command("REMOVE", subcommand) and
\* __handle_app_command("REMOVE", subcommand): nothing without a _group; else
\* the group drops the name of the command and _group is None again.
HandleCommandRemove(s, sub) ==
  IF s.sub_group[sub] = NoRef THEN s
  ELSE [GroupRemoveCommand(s, s.sub_group[sub], Name[sub]) EXCEPT
          !.sub_group[sub] = NoRef,
          !.calls = Append(@, [call |-> "detach", cmd |-> s.sub_command[sub],
                               grp |-> s.sub_group[sub]])]

\* The buckets __handle_commands goes through: self._not_found.copy().
PassBuckets(nf) == nf

\* The inner loop of __handle_commands over _commands.copy().values(); an
\* exception ends the pass.
RECURSIVE HandleBucket(_, _, _)
HandleBucket(s, cog_name, subs) ==
  IF subs = <<>> \/ s.err # NoErr THEN s
  ELSE LET sub == Head(subs).v
           found == FindGroup(s, sub)
       IN  IF found.err # "none"
           THEN [s EXCEPT !.err = [kind |-> found.err, cmd |-> sub]]
           ELSE IF found.g = NoRef THEN HandleBucket(s, cog_name, Tail(subs))
           ELSE LET s1 == IF IsAppKind(sub) THEN HandleAppCommandAdd(s, sub, found.g)
                          ELSE HandlePrefixHybridCommandAdd(s, sub, found.g)
                IN  IF s1.err # NoErr THEN s1
                    ELSE HandleBucket(
                           [s1 EXCEPT !.not_found = DictDel2(@, cog_name, Name[sub])],
                           cog_name, Tail(subs))

\* The outer loop: the bucket of each cog, then the bucket is dropped if it
\* is empty.
RECURSIVE HandleBuckets(_, _)
HandleBuckets(s, buckets) ==
  IF buckets = <<>> \/ s.err # NoErr THEN s
  ELSE LET cog_name == Head(buckets).k
           s1 == HandleBucket(s, cog_name, DictGet(s.not_found, cog_name))
       IN  IF s1.err # NoErr THEN s1
           ELSE HandleBuckets(
                  IF DefaultGet(s1.not_found, cog_name) = <<>>
                  THEN [s1 EXCEPT !.not_found = DictDel(@, cog_name)] ELSE s1,
                  Tail(buckets))

\* __handle_commands()
HandleCommands(s) == HandleBuckets(s, PassBuckets(s.not_found))

\* The loop of __cog_add over the walked commands: __get_subcommand makes
\* each command with a __subcommand__ the _command of it, and it goes into
\* both collections under the name of the command.
RECURSIVE Record(_, _, _)
Record(s, cog, walk) ==
  IF walk = <<>> THEN s
  ELSE Record(IF Head(walk).cb \in Decls
              THEN [s EXCEPT !.sub_command[Head(walk).cb] = Head(walk),
                             !.commands = DictSet2(@, cog.name, NameOf(Head(walk)),
                                                   Head(walk).cb),
                             !.not_found = DictSet2(@, cog.name, NameOf(Head(walk)),
                                                    Head(walk).cb)]
              ELSE s,
              cog, Tail(walk))

\* A __cog_add whose pass looks at the bucket of the cog just loaded only.
CogAddOwnBucket(s, cog, ord) ==
  LET s1 == Record(s, cog, WalkCog(s, cog, ord))
  IN  HandleBuckets(s1, SelectSeq(s1.not_found, LAMBDA b : b.k = cog.name))

\* __cog_add(cog), after the original add_cog.
CogAddBody(s, cog, ord) == HandleCommands(Record(s, cog, WalkCog(s, cog, ord)))

\* The loop of __cog_remove over the bucket of the cog.
RECURSIVE RemoveAll(_, _)
RemoveAll(s, subs) ==
  IF subs = <<>> THEN s ELSE RemoveAll(HandleCommandRemove(s, Head(subs).v), Tail(subs))

\* A __cog_remove that leaves the bucket of _not_found in place.
CogRemoveKeepNotFound(s, name) ==
  LET s1 == RemoveAll(s, DefaultGet(s.commands, name))
  IN  [s1 EXCEPT !.commands = DictDel(@, name)]

\* __cog_remove(name), after the original remove_cog.
CogRemoveBody(s, name) ==
  LET s1 == RemoveAll(s, DefaultGet(s.commands, name))
  IN  [s1 EXCEPT !.commands = DictDel(@, name), !.not_found = DictDel(@, name)]

\* The loop of remove() over every bucket: "REMOVE" for the declarations
\* with a _group.
RECURSIVE RemoveBuckets(_, _)
RemoveBuckets(s, buckets) ==
  IF buckets = <<>> THEN s
  ELSE RemoveBuckets(RemoveAll(s, Head(buckets).v), Tail(buckets))

\* A remove() that clears the collections and detaches nothing.
RemoveClearOnly(s) ==
  [s EXCEPT !.commands = <<>>, !.not_found = <<>>]

\* remove(): detach, then clear both collections (the entry points are
\* restored by the action).
RemoveBody(s) ==
  [RemoveBuckets(s, s.commands) EXCEPT !.commands = <<>>, !.not_found = <<>>]

(***************************************************************************)
(* The unresolved report.                                                  *)
(***************************************************************************)
\* _Subcommand._determine_command_group
DetermineCommandGroup(c) ==
  IF Kind[c] = "app_command" THEN "App command group"
  ELSE IF IsPrefixKind(c) THEN "Command group"
  ELSE IF Kind[c] = "app_group" THEN "Group"
  ELSE "unknown"

\* _Subcommand._determine_command_type
DetermineCommandType(c) ==
  IF Kind[c] = "app_command" THEN "app command"
  ELSE IF IsPrefixKind(c) THEN "command"
  ELSE IF Kind[c] = "app_group" THEN "group"
  ELSE "unknown"

\* The message of the RuntimeError for the entry name -> sub of the bucket
\* of cog: the group_name, the name, the cog, and the close match of the
\* name among the qualified names of the groups.
Message(s, cog, name, sub) ==
  LET commands_names == {QualifiedName(s, g) : g \in GetGroups(s, sub, TRUE)}
  IN  [cog |-> cog, name |-> name, group_name |-> Target[sub],
       group_label |-> DetermineCommandGroup(sub),
       command_type |-> DetermineCommandType(sub),
       didyoumean |-> GetCloseMatches(Chars(name), commands_names)]

\* The entries of self._not_found in the order of the two loops.
RECURSIVE Entries(_)
Entries(nf) ==
  IF nf = <<>> THEN <<>>
  ELSE [i \in 1..Len(Head(nf).v) |->
          [cog |-> Head(nf).k, name |-> Head(nf).v[i].k, sub |-> Head(nf).v[i].v]]
       \o Entries(Tail(nf))

\* raise_for_remaining_commands(): the messages of the error it raises,
\* <<>> when it returns.  It raises at the first entry without a _group.
RaiseForRemainingCommandsBody(s) ==
  LET open == SelectSeq(Entries(s.not_found), LAMBDA e : s.sub_group[e.sub] = NoRef)
  IN  IF s.not_found = <<>> \/ open = <<>> THEN <<>>
      ELSE <<Message(s, open[1].cog, open[1].name, open[1].sub)>>

\* self.__original_cog_add(cog): Bot.add_cog of the instance cog, [name, n],
\* of a cog that is not in bot.cogs.  What Cog._inject raises it raises.
OriginalCogAdd(s, cog) == Inject(s, cog)

\* self.__original_cog_remove(name, guild=..., guilds=...): Bot.remove_cog.
\* It returns None for a name that is not loaded; with both (guild and guilds
\* are passed) it raises before the cog is ejected; else it ejects the cog
\* and returns it.
OriginalCogRemove(s, cog, both) ==
  IF cog \notin loaded THEN s
  ELSE IF both THEN [s EXCEPT !.err = [kind |-> "TypeError", cmd |-> "none"]]
  ELSE [Eject(s, [name |-> cog, n |-> inst[cog]]) EXCEPT !.ret = cog]

\* A __cog_add that records and resolves in a finally clause.
CogAddFinally(orig, cog, ord) ==
  [CogAddBody([orig EXCEPT !.err = NoErr], cog, ord) EXCEPT !.err = orig.err]

\* __cog_add(cog) after the await of the original: what the original raised
\* propagates, and nothing else runs.
CogAddWrapper(orig, cog, ord) ==
  IF orig.err # NoErr THEN orig ELSE CogAddBody(orig, cog, ord)

\* A __cog_remove that does nothing after the await of the original.
CogRemoveAwaitOnly(orig, name) == [orig EXCEPT !.ret = "None"]

\* __cog_remove(name) after the await of the original, whose result it does
\* not keep: it has no return statement.
CogRemoveWrapper(orig, name) ==
  IF orig.err # NoErr THEN orig
  ELSE [CogRemoveBody(orig, name) EXCEPT !.ret = "None"]

(***************************************************************************)
(* The events.                                                             *)
(***************************************************************************)
\* The groups the two universes have registered, by qualified name.
Registered(s) ==
  {<<"prefix", QualifiedName(s, g)>> : g \in PrefixGroups(s)}
    \cup {<<"app", QualifiedName(s, g)>> : g \in TreeGroups(s)}

Commit(s, op, cog, msgs) ==
  /\ gen' = s.gen
  /\ parent' = s.parent
  /\ children' = s.children
  /\ bot_commands' = s.bot_commands
  /\ tree_commands' = s.tree_commands
  /\ commands' = s.commands
  /\ not_found' = s.not_found
  /\ sub_group' = s.sub_group
  /\ sub_command' = s.sub_command
  /\ on_error' = s.on_error
  /\ UNCHANGED <<check_group_type, copy_group_error_handler, bot_class, manager,
                 subcommand_attr, decorated>>
  /\ result' = [op |-> op, cog |-> cog, err |-> s.err, ret |-> s.ret, msgs |-> msgs,
                calls |-> s.calls, attempts |-> s.attempts]
  /\ seen' = seen \cup Registered(s)

\* The classes of the object handed to __init__: commands.Bot, or something
\* that is not one.
BotClasses == {"Bot", "Client", "NoneType"}

\* An __init__ that replaces add_cog and remove_cog before it looks at the
\* class of the object.
ManagerInitWrapFirst(cls, wrapped, coll) ==
  IF cls # "Bot"
  THEN [err |-> [kind |-> "TypeError", cmd |-> "none"], installed |-> TRUE,
        commands |-> coll.commands, not_found |-> coll.not_found]
  ELSE [err |-> NoErr, installed |-> TRUE, commands |-> <<>>, not_found |-> <<>>]

\* __init__(bot, ...) on an object of class cls, where wrapped tells whether
\* add_cog and remove_cog are wrappers and coll is the two collections:
\* [err, installed, commands, not_found].  The isinstance check comes before
\* anything is assigned.
ManagerInit(cls, wrapped, coll) ==
  IF cls # "Bot"
  THEN [err |-> [kind |-> "TypeError", cmd |-> "none"], installed |-> wrapped,
        commands |-> coll.commands, not_found |-> coll.not_found]
  ELSE [err |-> NoErr, installed |-> TRUE, commands |-> <<>>, not_found |-> <<>>]

\* The modules are imported and no cog is made yet: the command objects are
\* those of the class bodies, each declaration has the command it decorates
\* and no group, and the bot has nothing registered.
NoCogYet ==
  /\ loaded = {}
  /\ inst = [cog \in AllCogs |-> 0]
  /\ gen = [cog \in AllCogs |-> 0]
  /\ parent = [o \in {Object(c, 0) : c \in Cmds} |-> ClassRef(o.cb, 0)]
  /\ children = LET born == Only(DefOrder, {c \in Cmds : ClassParent[c] # "none"})
                IN  [i \in 1..Len(born) |->
                       [g |-> ClassRef(born[i], 0), c |-> Object(born[i], 0)]]
  /\ bot_commands = {}
  /\ tree_commands = {}
  /\ sub_group = [d \in Decls |-> NoRef]
  /\ sub_command = [d \in Decls |-> Object(d, 0)]
  /\ on_error = [o \in {Object(c, 0) : c \in Cmds} |-> ClassHandler[o.cb]]
  /\ inflight = {}
  /\ subcommand_attr = [o \in Decorated |-> NoAttr]
  /\ decorated = NoDecoration
  /\ result = [op |-> "init", cog |-> "none", err |-> NoErr, ret |-> "None", msgs |-> <<>>,
               calls |-> <<>>, attempts |-> <<>>]
  /\ history = <<>>
  /\ seen = {}

\* Before __init__: a host object of class cls, no cog loaded, no wrappers,
\* no manager; check and copy are the options __init__ will be called with.
Bare(cls, check, copy) ==
  /\ bot_class = cls
  /\ manager = "none"
  /\ installed = FALSE
  /\ check_group_type = check
  /\ copy_group_error_handler = copy
  /\ commands = <<>>
  /\ not_found = <<>>
  /\ NoCogYet

\* __init__(bot, copy_group_error_handler=copy, check_group_type=check):
\* both collections empty, the wrappers in place, no cog loaded.
InitWith(check, copy) ==
  /\ bot_class = "Bot"
  /\ manager = "constructed"
  /\ commands = <<>>
  /\ not_found = <<>>
  /\ check_group_type = check
  /\ copy_group_error_handler = copy
  /\ installed = TRUE
  /\ NoCogYet

\* The manager of examples/bot.py:
\* MultiFilesSubcommandsManager(self, copy_group_error_handler=True,
\* check_group_type=False).
Init == InitWith(FALSE, TRUE)

\* A manager with any of the options.
InitOptions == \E check \in BOOLEAN, copy \in BOOLEAN : InitWith(check, copy)

\* await bot.add_cog(cog) of a cog that is not loaded: cog is a new instance
\* of the class (fresh), or the instance that was loaded last.  The original
\* add_cog comes first; with the manager installed __cog_add then records and
\* resolves.  The cog is in bot.cogs when the original returned.
CogAddWithin(cog, fresh, events) ==
  /\ Len(history) < events
  /\ result.op # "report"
  /\ UNCHANGED inflight
  /\ bot_class = "Bot"
  /\ cog \notin loaded
  /\ fresh \/ inst[cog] > 0
  /\ history' = Append(history, <<"add", cog, IF fresh THEN "new" ELSE "same">>)
  /\ LET made == IF fresh THEN NewInstance(Cur, cog) ELSE Cur
         it == [name |-> cog, n |-> IF fresh THEN made.gen[cog] ELSE inst[cog]]
         orig == OriginalCogAdd(made, it)
     IN  /\ \E ord \in WalkOrders(orig, it) :
               Commit(IF installed THEN CogAddWrapper(orig, it, ord) ELSE orig,
                      "add", cog, <<>>)
         /\ loaded' = IF orig.err = NoErr THEN loaded \cup {cog} ELSE loaded
         /\ inst' = IF orig.err = NoErr THEN [inst EXCEPT ![cog] = it.n] ELSE inst
         /\ UNCHANGED installed

\* await bot.remove_cog(name) of a loaded cog: the original remove_cog
\* comes first; with the manager installed __cog_remove then detaches and
\* drops the bucket.
CogRemoveWithin(cog, events) ==
  /\ Len(history) < events
  /\ result.op # "report"
  /\ UNCHANGED inflight
  /\ bot_class = "Bot"
  /\ cog \in loaded
  /\ history' = Append(history, <<"remove", cog, "">>)
  /\ LET orig == OriginalCogRemove(Cur, cog, FALSE)
     IN  Commit(IF installed THEN CogRemoveWrapper(orig, cog) ELSE orig, "remove", cog, <<>>)
  /\ loaded' = loaded \ {cog}
  /\ UNCHANGED <<inst, installed>>

\* The two in a run of at most MaxEvents events.
CogAdd(cog, fresh) == CogAddWithin(cog, fresh, MaxEvents)

CogRemove(cog) == CogRemoveWithin(cog, MaxEvents)

\* await bot.remove_cog(name, guild=g, guilds=[g]) of a loaded cog: the
\* original remove_cog takes the cog out of bot.cogs and then raises TypeError
\* for the two arguments, with the commands of the cog still registered.
CogRemoveBothGuilds(cog) ==
  /\ Len(history) < MaxEvents
  /\ result.op # "report"
  /\ UNCHANGED inflight
  /\ bot_class = "Bot"
  /\ cog \in loaded
  /\ history' = Append(history, <<"remove", cog, "guild and guilds">>)
  /\ LET orig == OriginalCogRemove(Cur, cog, TRUE)
     IN  Commit(IF installed THEN CogRemoveWrapper(orig, cog) ELSE orig, "remove", cog, <<>>)
  /\ loaded' = loaded \ {cog}
  /\ UNCHANGED <<inst, installed>>

\* manager.raise_for_remaining_commands(), once, after the events (bot.py
\* calls it when every extension is loaded).
RaiseForRemainingCommands ==
  /\ result.op # "report"
  /\ UNCHANGED inflight
  /\ manager = "constructed"
  /\ UNCHANGED history
  /\ LET msgs == RaiseForRemainingCommandsBody(Cur)
     IN  Commit([Cur EXCEPT !.err = IF msgs = <<>> THEN NoErr
                                    ELSE [kind |-> "RuntimeError", cmd |-> msgs[1].name]],
                "report", "none", msgs)
  /\ UNCHANGED <<loaded, inst, installed>>

\* manager.remove()
Remove ==
  /\ Len(history) < MaxEvents
  /\ result.op # "report"
  /\ UNCHANGED inflight
  /\ installed
  /\ history' = Append(history, <<"teardown", "", "">>)
  /\ Commit(RemoveBody(Cur), "teardown", "none", <<>>)
  /\ installed' = FALSE
  /\ UNCHANGED <<loaded, inst>>

Next ==
  \/ \E cog \in Cogs, fresh \in BOOLEAN : CogAdd(cog, fresh)
  \/ \E cog \in Cogs : CogRemove(cog)
  \/ RaiseForRemainingCommands
  \/ Remove

Spec == Init /\ [][Next]_vars

\* The runs in which remove_cog may also be called with both guild and
\* guilds.
NextBothGuilds == Next \/ \E cog \in Cogs : CogRemoveBothGuilds(cog)

SpecBothGuilds == Init /\ [][NextBothGuilds]_vars

\* The names remove_cog is called with while no cog of the name is loaded.
AbsentNames == {"UserInfo"}

\* The cogs whose add_cog and remove_cog calls may be suspended: an add in
\* cog_load, before anything is registered, and, when bot.add_command has
\* raised for one of its commands, in cog_unload, after the undo and before
\* the exception is raised again; a remove in cog_unload, after the cog has
\* left bot.cogs and its commands the bot.
OverlapCogs == {"UserInfo"}

\* The original add_cog has failed in the first loop of Cog._inject, which
\* awaits cog_unload before it raises again: the error is the one of
\* bot.add_command, and none of bot.tree.add_command in the last loop.
FailedInBot(s, cog) == InjectBot(s, CogCommands(cog), <<>>).err # NoErr

\* cog = Cog(bot); await bot.add_cog(cog) up to the suspension in cog_load:
\* the wrapper has called the original, which has found no cog of the name.
\* The call holds the instance: a new one, or the one that was loaded last.
CogAddBegin(cog, fresh) ==
  /\ Len(history) + Cardinality(inflight) < MaxEvents
  /\ result.op # "report"
  /\ bot_class = "Bot"
  /\ installed
  /\ cog \notin loaded
  /\ fresh \/ inst[cog] > 0
  /\ \A call \in inflight : call.op # "add"
  /\ LET made == IF fresh THEN NewInstance(Cur, cog) ELSE Cur
     IN  /\ gen' = made.gen
         /\ parent' = made.parent
         /\ children' = made.children
         /\ on_error' = made.on_error
         /\ inflight' = inflight \cup
               {[op |-> "add", cog |-> cog, kind |-> IF fresh THEN "new" ELSE "same",
                 n |-> IF fresh THEN made.gen[cog] ELSE inst[cog],
                 at |-> "cog_load", err |-> NoErr]}
  /\ UNCHANGED <<loaded, inst, bot_commands, tree_commands,
                 commands, not_found, sub_group, sub_command, check_group_type,
                 copy_group_error_handler, installed, bot_class, manager,
                 subcommand_attr, decorated, result, history, seen>>

\* await bot.add_cog(cog) in the runs with suspended calls: a call that runs
\* through without suspension, or (resumed) the rest of a call suspended in
\* cog_load.  The original registers the commands, puts the cog into bot.cogs
\* and returns, and __cog_add records and resolves, with no await in between.
\* When bot.add_command raises for a command of a cog of OverlapCogs, the
\* original has undone its additions and awaits cog_unload: the call either
\* goes on to raise in the same step or (waits) stays suspended with the
\* exception it will raise.
CogAddOverlap(cog, fresh, resumed) ==
  LET kind == IF fresh THEN "new" ELSE "same"
      held == IF resumed
              THEN {call \in inflight : call.op = "add" /\ call.cog = cog
                                           /\ call.kind = kind /\ call.at = "cog_load"}
              ELSE {}
      made == IF fresh /\ ~resumed THEN NewInstance(Cur, cog) ELSE Cur
      it == [name |-> cog,
             n |-> IF resumed THEN (CHOOSE call \in held : TRUE).n
                   ELSE IF fresh THEN made.gen[cog] ELSE inst[cog]]
  IN
  /\ result.op # "report"
  /\ bot_class = "Bot"
  /\ IF resumed
       THEN held # {}
       ELSE /\ Len(history) < MaxEvents
            /\ cog \notin loaded
            /\ fresh \/ inst[cog] > 0
  /\ LET orig == OriginalCogAdd(made, it)
     IN  \E waits \in BOOLEAN :
           IF waits
           THEN /\ cog \in OverlapCogs
                /\ FailedInBot(made, it)
                /\ resumed \/ /\ Len(history) + Cardinality(inflight) < MaxEvents
                              /\ \A call \in inflight : call.op # "add"
                /\ inflight' = (inflight \ held) \cup
                      {[op |-> "add", cog |-> cog, kind |-> kind, n |-> it.n,
                        at |-> "cog_unload", err |-> orig.err]}
                /\ Commit([orig EXCEPT !.err = NoErr], "add begins", cog, <<>>)
                /\ UNCHANGED <<loaded, inst, installed, history>>
           ELSE /\ inflight' = inflight \ held
                /\ history' = Append(history,
                      IF resumed
                      THEN <<"add", cog, kind, {other.op : other \in inflight \ held}>>
                      ELSE <<"add", cog, kind>>)
                /\ \E ord \in WalkOrders(orig, it) :
                      Commit(IF installed THEN CogAddWrapper(orig, it, ord) ELSE orig,
                             "add", cog, <<>>)
                /\ loaded' = IF orig.err = NoErr THEN loaded \cup {cog} ELSE loaded
                /\ inst' = IF orig.err = NoErr THEN [inst EXCEPT ![cog] = it.n] ELSE inst
                /\ UNCHANGED installed

\* The rest of an add_cog suspended in cog_unload: Cog._inject raises what
\* bot.add_command raised, the original and __cog_add let it through, and
\* nothing is recorded.
CogAddRaise(call) ==
  /\ call \in inflight
  /\ call.op = "add"
  /\ call.at = "cog_unload"
  /\ result.op # "report"
  /\ inflight' = inflight \ {call}
  /\ history' = Append(history, <<"add", call.cog, call.kind,
                                  {other.op : other \in inflight \ {call}}>>)
  /\ Commit([Cur EXCEPT !.err = call.err], "add", call.cog, <<>>)
  /\ UNCHANGED <<loaded, inst, installed>>

\* await bot.remove_cog(name) up to the suspension in cog_unload: the
\* original has taken the cog out of bot.cogs and ejected its commands.
CogRemoveBegin(cog) ==
  /\ Len(history) + Cardinality(inflight) < MaxEvents
  /\ result.op # "report"
  /\ bot_class = "Bot"
  /\ installed
  /\ cog \in loaded
  /\ \A call \in inflight : call.op # "remove"
  /\ inflight' = inflight \cup {[op |-> "remove", cog |-> cog, kind |-> "", n |-> inst[cog],
                                 at |-> "cog_unload", err |-> NoErr]}
  /\ Commit(Eject(Cur, [name |-> cog, n |-> inst[cog]]), "remove begins", cog, <<>>)
  /\ loaded' = loaded \ {cog}
  /\ UNCHANGED <<inst, installed, history>>

\* The rest of a suspended remove_cog: the original returns the cog, and
\* __cog_remove detaches and drops the bucket, with no await in between.
CogRemoveResume(call) ==
  /\ call \in inflight
  /\ call.op = "remove"
  /\ result.op # "report"
  /\ inflight' = inflight \ {call}
  /\ history' = Append(history, <<"remove", call.cog, "",
                                  {other.op : other \in inflight \ {call}}>>)
  /\ Commit(CogRemoveWrapper([Cur EXCEPT !.ret = call.cog], call.cog),
            "remove", call.cog, <<>>)
  /\ UNCHANGED <<loaded, inst, installed>>

\* The cogs of the runs with suspended calls: the one whose calls are
\* suspended, the cog of its group, and a cog with a command of the same
\* name as one of its commands.
OverlapScene == OverlapCogs \cup {"Groups", "HybridChannelCommands"}

\* The runs in which the calls for the cogs of OverlapCogs may be suspended
\* and resumed in any order, between the loads and removals of the scene.
NextOverlap ==
  \/ \E cog \in OverlapScene, fresh \in BOOLEAN, resumed \in BOOLEAN :
        CogAddOverlap(cog, fresh, resumed)
  \/ \E cog \in OverlapScene : CogRemove(cog)
  \/ \E cog \in OverlapCogs, fresh \in BOOLEAN : CogAddBegin(cog, fresh)
  \/ \E cog \in OverlapCogs : CogRemoveBegin(cog)
  \/ \E call \in inflight : CogRemoveResume(call)
  \/ \E call \in inflight : CogAddRaise(call)

SpecOverlap == Init /\ [][NextOverlap]_vars

\* The runs of loads and removals of the prefix group cog and of the cogs
\* that declare subcommands for it: fewer cogs, one more event.
ReloadCogs == {"Groups", "UserInfo", "Utilities"}

MaxReloadEvents == 5

NextReload ==
  \/ \E cog \in ReloadCogs, fresh \in BOOLEAN : CogAddWithin(cog, fresh, MaxReloadEvents)
  \/ \E cog \in ReloadCogs : CogRemoveWithin(cog, MaxReloadEvents)

SpecReload == Init /\ [][NextReload]_vars

\* The runs that also load and remove the cog with the two commands of one
\* name.
NextTwins ==
  \/ Next
  \/ \E fresh \in BOOLEAN : CogAdd(TwinCog, fresh)
  \/ CogRemove(TwinCog)

SpecTwins == Init /\ [][NextTwins]_vars

\* await bot.remove_cog(name) of a name that is not loaded.
CogRemoveAbsent(cog) ==
  /\ Len(history) < MaxEvents
  /\ result.op # "report"
  /\ UNCHANGED inflight
  /\ bot_class = "Bot"
  /\ cog \notin loaded
  /\ history' = Append(history, <<"remove", cog, "absent">>)
  /\ LET orig == OriginalCogRemove(Cur, cog, FALSE)
     IN  Commit(IF installed THEN CogRemoveWrapper(orig, cog) ELSE orig, "remove", cog, <<>>)
  /\ UNCHANGED <<loaded, inst, installed>>

\* The runs in which remove_cog may also be called with a name that is not
\* loaded.
NextAnyName == Next \/ \E cog \in AbsentNames : CogRemoveAbsent(cog)

SpecAnyName == Init /\ [][NextAnyName]_vars

SpecOptions == InitOptions /\ [][Next]_vars

\* MultiFilesSubcommandsManager(bot, ...), once, on a host that may have
\* cogs loaded already.
Construct ==
  /\ Len(history) < MaxEvents
  /\ result.op # "report"
  /\ UNCHANGED inflight
  /\ manager = "none"
  /\ history' = Append(history, <<"construct", bot_class, "">>)
  /\ LET out == ManagerInit(bot_class, installed,
                            [commands |-> commands, not_found |-> not_found])
     IN  /\ installed' = out.installed
         /\ commands' = out.commands
         /\ not_found' = out.not_found
         /\ manager' = IF out.err = NoErr THEN "constructed" ELSE "failed"
         /\ result' = [op |-> "construct", cog |-> "none", err |-> out.err, ret |-> "None",
                       msgs |-> <<>>, calls |-> <<>>, attempts |-> <<>>]
  /\ seen' = seen \cup Registered(Cur)
  /\ UNCHANGED <<loaded, inst, gen, parent, children, bot_commands, tree_commands,
                 sub_group, sub_command, on_error, check_group_type,
                 copy_group_error_handler, bot_class, subcommand_attr, decorated>>

InitConstruct == \E cls \in BotClasses : Bare(cls, FALSE, TRUE)

NextConstruct == Construct \/ Next

SpecConstruct == InitConstruct /\ [][NextConstruct]_vars

\* @subcommand(group_name) on an object that was not decorated before, while
\* the class bodies are evaluated: before any cog is loaded.
Decorate(group_name, command) ==
  /\ history = <<>>
  /\ result.op = "init"
  /\ Cardinality({o \in Decorated : subcommand_attr[o] # NoAttr}) < MaxDecorations
  /\ subcommand_attr[command] = NoAttr
  /\ LET out == Decorator(subcommand_attr, group_name, command)
     IN  /\ subcommand_attr' = out.attr
         /\ decorated' = [target |-> command, group_name |-> group_name, err |-> out.err]
  /\ UNCHANGED <<loaded, inst, gen, parent, children, bot_commands, tree_commands,
                 commands, not_found, sub_group, sub_command, on_error,
                 check_group_type, copy_group_error_handler, installed, inflight,
                 bot_class, manager, result, history, seen>>

NextDecorate == \E group_name \in GroupNames, command \in Decorated : Decorate(group_name, command)

SpecDecorate == Init /\ [][NextDecorate]_vars

(***************************************************************************)
(* The properties.                                                         *)
(***************************************************************************)
\* The command with callback c of the instance of its cog that was loaded
\* last: while the cog is loaded, the command of the cog in bot.cogs.
Obj(c) == Object(c, inst[CogOf[c]])

\* The command object o is a child of the group object g.
ChildOf(o, g) == \E i \in 1..Len(children) : children[i] = [g |-> g, c |-> o]

\* The command object o is a child of some group.
InSomeGroup(o) == \E i \in 1..Len(children) : children[i].c = o

\* The declaration d is attached: its _group is set and holds the command
\* of its cog.
Attached(d) == sub_group[d] # NoRef /\ ChildOf(Obj(d), sub_group[d])

\* The universe a declaration looks its group up in.
Side(d) == IF IsAppKind(d) THEN "app" ELSE "prefix"

\* The declarations of the cogs that are loaded.
LoadedDecls == {d \in Decls : CogOf[d] \in loaded}

\* The run is the loads, each of a new instance, of the cogs of cs, in
\* some order, and nothing else.
LoadsOf(cs) ==
  /\ Len(history) = Cardinality(cs)
  /\ \A i \in 1..Len(history) : history[i][1] = "add" /\ history[i][3] = "new"
  /\ {history[i][2] : i \in 1..Len(history)} = cs

\* C1: at the report after a run of loads and unloads, a declaration whose
\* target group was registered at some point before is attached, and any
\* other declaration of a loaded cog is named by the error the report raises.
C1_ReportSettlesEveryDeclaration ==
  (installed /\ result.op = "report") =>
     \A d \in LoadedDecls :
        IF <<Side(d), Target[d]>> \in seen
        THEN Attached(d)
        ELSE \E i \in 1..Len(result.msgs) :
                result.msgs[i].cog = CogOf[d] /\ result.msgs[i].name = Name[d]

\* C2: after the cogs of user, of utils (target "user") and of whenjoin
\* (target "user utils") are loaded, in any of the six orders, utils is a
\* child of user, whenjoin a child of utils, and nothing is unresolved.
C2_NestedTargetsConverge ==
  LoadsOf({"Groups", "UserInfo", "Utilities"}) =>
     /\ ChildOf(Obj("user_utils"), Obj("user"))
     /\ ChildOf(Obj("user_utils_whenjoin"), Obj("user_utils"))
     /\ not_found = <<>>

\* C3: a cog that declares a command for the group g and the cog that
\* defines g, loaded in either order, end with the command attached under g
\* and with no bucket of unresolved declarations for either cog.
C3_TwoCogsEitherOrder ==
  \A pair \in {<<"UserInfo", "Groups">>, <<"ServerCommands", "SlashCog">>} :
     LoadsOf({pair[1], pair[2]}) =>
        /\ \A d \in Decls : CogOf[d] = pair[1] =>
              /\ sub_group[d] = Obj(Target[d][1])
              /\ ChildOf(Obj(d), Obj(Target[d][1]))
        /\ ~DictHas(not_found, pair[1])
        /\ ~DictHas(not_found, pair[2])

\* The declaring cog was loaded first, the cog of the group second.
C3_Witness ==
  /\ history = << <<"add", "UserInfo", "new">>, <<"add", "Groups", "new">> >>
  /\ ChildOf(Obj("user_info"), Obj("user"))
  /\ ChildOf(Obj("user_avatar"), Obj("user"))
  /\ result.calls # <<>>

\* C4: a resolution pass run again right after the pass of a load attaches
\* nothing, detaches nothing, takes no command out of the top-level
\* registries, and leaves both collections as they are.
C4_PassIsIdempotent ==
  (installed /\ result.op = "add") =>
     LET again == HandleCommands(Cur)
     IN  /\ again.calls = <<>>
         /\ again.children = children
         /\ again.bot_commands = bot_commands
         /\ again.tree_commands = tree_commands
         /\ again.commands = commands
         /\ again.not_found = not_found

\* C5: the unload of a cog leaves every command its declarations had
\* attached without a parent and out of the children of its group, and
\* leaves no bucket of the cog in either collection.
C5_UnloadDetaches ==
  [][\A cog \in Cogs :
        (installed /\ history' = Append(history, <<"remove", cog, "">>)) =>
           /\ \A d \in Decls : (CogOf[d] = cog /\ Attached(d)) =>
                 /\ parent'[Obj(d)] = NoRef
                 /\ \A i \in 1..Len(children') : children'[i].c # Obj(d)
           /\ ~DictHas(commands', cog)
           /\ ~DictHas(not_found', cog)]_vars

\* C6: from the teardown on, the entry points are the original ones, both
\* collections are empty, and no declaration has a group or a command, of
\* any instance of its cog, that is the child of a group, whatever is loaded
\* or unloaded afterwards; no "ADD" is made.
C6_TeardownLeavesNothing ==
  (\E i \in 1..Len(history) : history[i][1] = "teardown") =>
     /\ ~installed
     /\ commands = <<>>
     /\ not_found = <<>>
     /\ \A d \in Decls :
           /\ sub_group[d] = NoRef
           /\ \A i \in 1..Len(children) : children[i].c.cb # d
     /\ result.attempts = <<>>

\* Commands were attached, the manager was torn down, and a cog was
\* unloaded afterwards.
C6_Witness ==
  /\ Len(history) = 4
  /\ history[1] = <<"add", "Groups", "new">>
  /\ history[2] = <<"add", "UserInfo", "new">>
  /\ history[3] = <<"teardown", "", "">>
  /\ history[4][1] = "remove"

\* C7: with k declarations unresolved, the report raises one error that
\* holds k messages, one for each of them.
C7_OneMessagePerUnresolved ==
  (installed /\ result.op = "report") =>
     LET open == SelectSeq(Entries(not_found), LAMBDA e : sub_group[e.sub] = NoRef)
     IN  /\ Len(result.msgs) = Len(open)
         /\ \A i \in 1..Len(open) :
               \E j \in 1..Len(result.msgs) :
                  result.msgs[j].cog = open[i].cog /\ result.msgs[j].name = open[i].name

\* C8: the report raises exactly when a declaration of a loaded cog is not
\* attached; with UserInfo loaded and no cog of the group "user", it raises
\* one error that names the cog, the command info and the group user.
C8_RaisesIffUnresolved ==
  (installed /\ result.op = "report") =>
     /\ (result.err.kind = "RuntimeError") <=> (\E d \in LoadedDecls : ~Attached(d))
     /\ (loaded = {"UserInfo"} /\ <<"prefix", <<"user">>>> \notin seen) =>
           /\ result.err = [kind |-> "RuntimeError", cmd |-> "info"]
           /\ Len(result.msgs) = 1
           /\ result.msgs[1].cog = "UserInfo"
           /\ result.msgs[1].name = "info"
           /\ result.msgs[1].group_name = <<"user">>

\* C9: the suggestion of a message is the registered qualified group name
\* closest to the target group name of the declaration; there is one exactly
\* when a candidate group exists.
C9_SuggestionClosestToTarget ==
  (installed /\ result.op = "report") =>
     \A i \in 1..Len(result.msgs) :
        LET m == result.msgs[i]
        IN  \A d \in Decls :
               ( /\ Name[d] = m.name
                 /\ Target[d] = m.group_name
                 /\ DetermineCommandType(d) = m.command_type )
               => LET names == {QualifiedName(Cur, g) : g \in GetGroups(Cur, d, TRUE)}
                  IN  /\ (m.didyoumean # <<>>) <=> (names # {})
                      /\ m.didyoumean = GetCloseMatches(JoinChars(m.group_name), names)

\* C10: a command is the child of one group at most, and an attach of a
\* command that has a parent raises and attaches nothing.
C10_OneParent ==
  /\ \A o \in DOMAIN parent : Cardinality({i \in 1..Len(children) : children[i].c = o}) <= 1
  /\ \A i \in 1..Len(result.attempts) :
        result.attempts[i].hadParent =>
           /\ result.err = [kind |-> "ValueError", cmd |-> result.attempts[i].cmd.cb]
           /\ \A j \in 1..Len(result.calls) :
                 ~(result.calls[j].call = "attach"
                   /\ result.calls[j].cmd = result.attempts[i].cmd)

\* The pass found the group of an app command that still has the parent of
\* an earlier attachment.
C10_Witness ==
  /\ \E i \in 1..Len(result.attempts) :
        /\ result.attempts[i].hadParent
        /\ IsAppKind(result.attempts[i].cmd.cb)
  /\ result.err.kind = "ValueError"

\* The declaration d is an entry of the collection coll, in some bucket.
InColl(coll, d) ==
  \E i \in 1..Len(coll) : \E j \in 1..Len(coll[i].v) : coll[i].v[j].v = d

\* C11: every entry of _not_found is an entry of the collection of all
\* declarations, in the bucket of the same cog and under the same key.
C11_NotFoundWithinCommands ==
  \A i \in 1..Len(not_found) :
     \A j \in 1..Len(not_found[i].v) :
        /\ DictHas(commands, not_found[i].k)
        /\ \E k \in 1..Len(DictGet(commands, not_found[i].k)) :
              DictGet(commands, not_found[i].k)[k] = not_found[i].v[j]

\* A cog was unloaded, and of the cogs still recorded one has unresolved
\* declarations and another has all of its declarations attached.
C11_Witness ==
  /\ \E i \in 1..Len(history) : history[i][1] = "remove"
  /\ not_found # <<>>
  /\ Len(commands) > Len(not_found)

\* C12: a declaration of a loaded cog is in the collection of all
\* declarations and not in _not_found exactly when its _group is set and its
\* command is a child of that group; a declaration whose _group is set is
\* never in _not_found.
C12_ResolvedIffAttached ==
  \A d \in LoadedDecls :
     /\ (InColl(commands, d) /\ ~InColl(not_found, d)) <=> Attached(d)
     /\ sub_group[d] # NoRef => ~InColl(not_found, d)

\* An application command with a group of the tree, a prefix or hybrid
\* command with a group of the bot.
SameUniverse(c, g) == IsAppKind(c) <=> Kind[g] = "app_group"

Namesakes(d) ==
  {g \in TreeGroups(Cur) \cup PrefixGroups(Cur) : QualifiedName(Cur, g) = Target[d]}

\* The classes the host does not let a group take as a child.
WrongClass(c, g) ==
  \/ ~SameUniverse(c, g)
  \/ Kind[g] = "hybrid_group" /\ Kind[c] \notin {"hybrid_command", "hybrid_group"}

\* The declaration d is unresolved and every group with its target name is
\* of a class that cannot take it.
OnlyWrongClass(d) ==
  /\ InColl(not_found, d)
  /\ sub_group[d] = NoRef
  /\ Namesakes(d) # {}
  /\ \A g \in Namesakes(d) : WrongClass(d, g.cb)

\* C14: after a load, for a declaration whose only namesake groups are of
\* an incompatible class: with check_group_type off no error is raised for it
\* and it stays unresolved and unattached; with check_group_type on the load
\* raises, and the error raised for it is a TypeError.
C14_CheckGroupTypeDecides ==
  (installed /\ result.op = "add") =>
     \A d \in LoadedDecls : OnlyWrongClass(d) =>
        IF check_group_type
        THEN /\ result.err # NoErr
             /\ result.err.cmd = d => result.err.kind = "TypeError"
        ELSE /\ result.err.cmd # d
             /\ ~Attached(d)

\* C15: @subcommand raises, and the target carries no declaration, when
\* the group name is not a string, when the target is not a command or group,
\* or when the command has a parent; in every other case nothing is raised
\* and the target carries one declaration with the given group name and no
\* group.
C15_DecoratorOutcome ==
  decorated # NoDecoration =>
     LET o == decorated.target
         bad == \/ decorated.group_name.type # "str"
                \/ DecoratedKind(o) = "function"
                \/ DecoratedHasParent(o)
     IN  IF bad
         THEN decorated.err # "none" /\ subcommand_attr[o] = NoAttr
         ELSE /\ decorated.err = "none"
              /\ subcommand_attr[o] = [group_name |-> decorated.group_name.value,
                                       command |-> o, group |-> "none"]

\* C17: the error handler of a command changes only by the copy: with the
\* option off, and for every app command, the handler is the one of the class
\* body; with the option on a prefix or hybrid command that is attached to a
\* group with an error handler has the handler of the group, and one that is
\* attached to a group without a handler keeps its own.
C17_ErrorHandlerCopy ==
  /\ \A o \in DOMAIN on_error :
        (o.cb \in Decls /\ (~copy_group_error_handler \/ IsAppKind(o.cb)))
           => on_error[o] = ClassHandler[o.cb]
  /\ \A d \in Decls :
        (IsPrefixKind(d) /\ Attached(d)) =>
           IF copy_group_error_handler /\ on_error[sub_group[d]] # "none"
           THEN on_error[Obj(d)] = on_error[sub_group[d]]
           ELSE on_error[Obj(d)] = ClassHandler[d]

\* The option is on, and whenjoin is attached to utils, which has the
\* handler it copied from user: whenjoin has it too.
C17_Witness ==
  /\ copy_group_error_handler
  /\ Attached("user_utils_whenjoin")
  /\ Attached("user_utils")
  /\ ClassHandler["user_utils_whenjoin"] = "none"
  /\ on_error[Obj("user_utils")] = "user_error"
  /\ on_error[Obj("user_utils_whenjoin")] = "user_error"

\* C16: constructing the manager on an object that is not a commands.Bot
\* raises TypeError and leaves add_cog and remove_cog unwrapped; on a Bot it
\* raises nothing, both are the wrappers, and both collections are empty.
C16_ConstructorOutcome ==
  /\ bot_class # "Bot" => ~installed
  /\ result.op = "construct" =>
        IF bot_class # "Bot"
        THEN result.err.kind = "TypeError" /\ manager = "failed"
        ELSE /\ result.err = NoErr
             /\ manager = "constructed"
             /\ installed
             /\ commands = <<>>
             /\ not_found = <<>>

\* The constructor was called on a discord.Client and raised.
C16_Witness ==
  /\ result.op = "construct"
  /\ bot_class = "Client"
  /\ result.err.kind = "TypeError"
  /\ ~installed

\* The step is a call of add_cog or remove_cog in which the original raised.
OriginalRaised ==
  /\ \E cog \in Cogs, kind \in {"new", "same", "guild and guilds"} :
        history' = Append(history, <<IF kind = "guild and guilds" THEN "remove" ELSE "add",
                                     cog, kind>>)
  /\ result'.err # NoErr
  /\ result'.err.cmd = "none"

\* C18: when the original add_cog or remove_cog raises, the caller gets the
\* exception, and both collections, every _group and _command, the parent
\* of every command there was before the call and the children of every group
\* are as they were before the call; a removal with both guild and guilds
\* raises in the original.
C18_OriginalFirst ==
  [][/\ OriginalRaised =>
          /\ UNCHANGED <<commands, not_found, sub_group, sub_command>>
          /\ \A o \in DOMAIN parent : parent'[o] = parent[o]
          /\ SelectSeq(children', LAMBDA l : l.c \in DOMAIN parent) = children
     /\ \A cog \in Cogs :
          history' = Append(history, <<"remove", cog, "guild and guilds">>)
             => result'.err = [kind |-> "TypeError", cmd |-> "none"]]_vars

\* The manager is installed, a cog has an unresolved declaration, and the
\* load of another cog has failed in the original add_cog.
C18_Witness ==
  /\ installed
  /\ result.op = "add"
  /\ result.err.kind \in {"CommandRegistrationError", "CommandAlreadyRegistered"}
  /\ result.err.cmd = "none"
  /\ result.cog \notin loaded
  /\ not_found # <<>>

\* The declaration d would be attached by a pass: it is unresolved, its
\* command has no parent, and __find_group returns a group of its class for
\* its target, a top-level group, which no pass registers or unregisters.
Attachable(d) ==
  /\ InColl(not_found, d)
  /\ sub_group[d] = NoRef
  /\ parent[sub_command[d]] = NoRef
  /\ Len(Target[d]) = 1
  /\ FindGroup(Cur, d).g # NoRef
  /\ FindGroup(Cur, d).err = "none"

\* C19: a conflict stops the declaration it is raised for and no other: after
\* a load whose pass raised for one declaration, no other declaration is left
\* unresolved that the pass could have attached.
C19_ConflictsIsolated ==
  (result.op = "add" /\ installed /\ result.err.cmd # "none") =>
     \A d \in Decls \ {result.err.cmd} : ~Attachable(d)

\* The exception a pass raises for the declaration d when it reaches it in
\* the state s: the one of __find_group, or ValueError for a command that has
\* a parent; "none" when it raises nothing.
ConflictOf(s, d) ==
  LET found == FindGroup(s, d)
  IN  IF found.err # "none" THEN found.err
      ELSE IF found.g # NoRef /\ s.parent[s.sub_command[d]] # NoRef THEN "ValueError"
      ELSE "none"

\* The step is a load, through the wrapper, whose original add_cog returned.
LoadStep ==
  /\ installed
  /\ \E cog \in Cogs, kind \in {"new", "same"} : history' = Append(history, <<"add", cog, kind>>)
  /\ result'.err.cmd # "none" \/ result'.err = NoErr

\* C20: the declaration a pass raises for has no _group afterwards, is in
\* both collections, and its command is where it was; and a pass that runs
\* while a declaration of another cog is unresolved and in conflict, and
\* leaves it in the same conflict, raises that conflict.
C20_ConflictUntouchedAndRetried ==
  [][LoadStep =>
       \A d \in Decls :
          /\ result'.err.cmd = d =>
                /\ sub_group'[d] = NoRef
                /\ InColl(not_found', d)
                /\ InColl(commands', d)
                /\ CogOf[d] # result'.cog =>
                      /\ sub_command'[d] = sub_command[d]
                      /\ parent'[sub_command[d]] = parent[sub_command[d]]
                      /\ (sub_command[d] \in bot_commands' <=> sub_command[d] \in bot_commands)
                      /\ (sub_command[d] \in tree_commands' <=> sub_command[d] \in tree_commands)
          /\ ( /\ CogOf[d] # result'.cog
               /\ InColl(not_found, d)
               /\ ConflictOf(Cur, d) # "none"
               /\ ConflictOf(Cur', d) = ConflictOf(Cur, d) )
             => result'.err = [kind |-> ConflictOf(Cur, d), cmd |-> d]]_vars

\* The registered groups that can take the declaration d as a child and
\* have the qualified name of its target.
CompatibleGroups(d) ==
  {g \in (IF IsAppKind(d) THEN TreeGroups(Cur) ELSE PrefixGroups(Cur)) :
     /\ ~WrongClass(d, g.cb)
     /\ QualifiedName(Cur, g) = Target[d]}

\* C21: a declaration is attached only to a group of its universe with the
\* qualified name of its target, and a group of another universe with that
\* name does not stand in the way: when a pass raises TypeError for a
\* declaration no group that could take it has the name.
C21_ExactNameCompatiblePool ==
  (result.op = "add" /\ installed) =>
     /\ \A i \in 1..Len(result.calls) :
           result.calls[i].call = "attach" =>
              /\ QualifiedName(Cur, result.calls[i].grp) = Target[result.calls[i].cmd.cb]
              /\ SameUniverse(result.calls[i].cmd.cb, result.calls[i].grp.cb)
     /\ \A d \in Decls :
           (result.err = [kind |-> "TypeError", cmd |-> d] /\ parent[sub_command[d]] = NoRef)
              => CompatibleGroups(d) = {}

\* The step is remove_cog(cog) through the wrapper, of a loaded cog or of a
\* name that is not loaded.
UnloadStep(cog) ==
  /\ installed
  /\ \E kind \in {"", "absent"} : history' = Append(history, <<"remove", cog, kind>>)

\* C22: remove_cog of a name whose bucket holds no attached declaration, or
\* that has no bucket, makes no detach call, raises nothing, leaves the
\* children of every group as they are, and leaves no bucket of the name in
\* either collection.
C22_UnloadOfUnattachedIsInert ==
  [][\A cog \in Cogs :
        ( /\ UnloadStep(cog)
          /\ \A d \in Decls : InColl(SelectSeq(commands, LAMBDA b : b.k = cog), d)
                                => sub_group[d] = NoRef )
        => /\ \A i \in 1..Len(result'.calls) : result'.calls[i].call # "detach"
           /\ result'.err = NoErr
           /\ children' = children
           /\ ~DictHas(commands', cog)
           /\ ~DictHas(not_found', cog)]_vars

\* A cog with an unresolved declaration, in both collections, has just been
\* removed.
C22_Witness ==
  /\ installed
  /\ result.op = "remove"
  /\ result.cog = "UserInfo"
  /\ history = <<<<"add", "UserInfo", "new">>, <<"remove", "UserInfo", "">>>>
  /\ commands = <<>>
  /\ not_found = <<>>

\* C25: the wrapper of remove_cog returns what the original returned: the
\* cog for a loaded cog, None for a name that is not loaded.
C25_RemoveIsTransparent ==
  (installed /\ result.op = "remove" /\ result.err = NoErr /\ history # <<>>) =>
     LET last == history[Len(history)]
     IN  /\ last[3] = "" => result.ret = last[2]
         /\ last[3] = "absent" => result.ret = "None"

\* The declarations in the bucket of cog in the collection coll.
InBucket(coll, cog, d) == InColl(SelectSeq(coll, LAMBDA b : b.k = cog), d)

\* C23: the load of a new instance of a cog records every annotated command
\* of the cog: after it each is in the bucket of the cog in the collection of
\* all declarations, and in the bucket of the unresolved ones unless the pass
\* of the load attached it, also when two of them have the same name.
C23_RecordingComplete ==
  \A d \in Decls :
     ( /\ installed
       /\ result.op = "add"
       /\ result.cog = CogOf[d]
       /\ result.cog \in loaded
       /\ history[Len(history)] = <<"add", CogOf[d], "new">> )
     => /\ InBucket(commands, CogOf[d], d)
        /\ InBucket(not_found, CogOf[d], d) \/ Attached(d)

\* C24: when the cog of a top-level group is removed and loaded again while
\* the cog of a declaration for that group stays loaded, the declared command
\* is afterwards a child of the group that is registered under the name.
C24_GroupReloadKeepsMembership ==
  \A d \in Decls, g \in Cmds :
     ( /\ IsGroupKind(g)
       /\ ClassParent[g] = "none"
       /\ Target[d] = <<Name[g]>>
       /\ ~WrongClass(d, g)
       /\ CogOf[d] # CogOf[g]
       /\ installed
       /\ CogOf[d] \in loaded
       /\ CogOf[g] \in loaded
       /\ Len(history) >= 2
       /\ history[Len(history) - 1] = <<"remove", CogOf[g], "">>
       /\ history[Len(history)][1] = "add"
       /\ history[Len(history)][2] = CogOf[g] )
     => /\ Obj(g) \in bot_commands \cup tree_commands
        /\ ChildOf(Obj(d), Obj(g))

\* C27: remove_cog(P) leaves the declarations of every other cog as they
\* are: their buckets in both collections, their _group, and the group each
\* of their commands is a child of.
C27_UnloadTouchesOwnOnly ==
  [][\A cog \in Cogs :
        UnloadStep(cog) =>
           /\ SelectSeq(commands', LAMBDA b : b.k # cog)
                = SelectSeq(commands, LAMBDA b : b.k # cog)
           /\ SelectSeq(not_found', LAMBDA b : b.k # cog)
                = SelectSeq(not_found, LAMBDA b : b.k # cog)
           /\ \A d \in Decls : CogOf[d] # cog =>
                 /\ sub_group'[d] = sub_group[d]
                 /\ SelectSeq(children', LAMBDA l : l.c.cb = d)
                      = SelectSeq(children, LAMBDA l : l.c.cb = d)]_vars

\* C28: a command the manager attaches is taken out of the bot and the tree,
\* and the detach of an unload or of the teardown does not put it back: after
\* either, a command that was attached is the child of no group and is not a
\* top-level command.
C28_DetachDoesNotReregister ==
  [][\A d \in Decls :
        /\ ( /\ installed
             /\ result'.op = "add"
             /\ history' # history
             /\ \E i \in 1..Len(result'.calls) :
                   result'.calls[i].call = "attach" /\ result'.calls[i].cmd.cb = d )
           => sub_command'[d] \notin bot_commands' \cup tree_commands'
        /\ ( /\ installed
             /\ Attached(d)
             /\ CogOf[d] \in loaded
             /\ \/ history' = Append(history, <<"teardown", "", "">>)
                \/ history' = Append(history, <<"remove", CogOf[d], "">>) )
           => /\ \A i \in 1..Len(children') : children'[i].c # Obj(d)
              /\ Obj(d) \notin bot_commands' \cup tree_commands']_vars

\* After the teardown, with both cogs still loaded, info of UserInfo, which
\* was attached to user, is the child of no group and not a command of the
\* bot.
C28_Witness ==
  /\ result.op = "teardown"
  /\ {"Groups", "UserInfo"} \subseteq loaded
  /\ \E i \in 1..Len(result.calls) :
        result.calls[i] = [call |-> "detach", cmd |-> Obj("user_info"), grp |-> Obj("user")]
  /\ ~InSomeGroup(Obj("user_info"))
  /\ Obj("user_info") \notin bot_commands

\* No call is suspended, and no cog that is not loaded has a bucket in
\* either collection, a declaration with a _group, or a command that is a
\* child of a group the bot or the tree holds.
OverlapLeavesNoResidue ==
  (installed /\ inflight = {}) =>
     \A cog \in Cogs : cog \notin loaded =>
        /\ ~DictHas(commands, cog)
        /\ ~DictHas(not_found, cog)
        /\ \A d \in Decls : CogOf[d] = cog =>
              /\ sub_group[d] = NoRef
              /\ \A i \in 1..Len(children) :
                    children[i].g \in Reach(Cur, bot_commands \cup tree_commands)
                       => children[i].c.cb # d

\* What __cog_add and __cog_remove write after the await of the original.
Bookkeeping == <<commands, not_found, sub_group, sub_command>>

\* The step ends the call op of the cog: the await of the original returned
\* or raised, and the wrapper has returned or raised.
Ends(op, cog) ==
  /\ Len(history') = Len(history) + 1
  /\ history'[Len(history')][1] = op
  /\ history'[Len(history')][2] = cog

\* The step has recorded the declaration d in the bucket of the cog: it is
\* in the bucket and was not before, or its _command is another object.
Recorded(cog, d) ==
  /\ InBucket(commands', cog, d)
  /\ ~InBucket(commands, cog, d) \/ sub_command'[d] # sub_command[d]

\* The bookkeeping of an event is one step.  Only a step that ends a call
\* writes it, so a step that leaves a call suspended, in cog_load or in
\* cog_unload, writes nothing.  The step that ends an unload has detached
\* every declaration of the bucket and dropped the bucket from both
\* collections.  The step that ends a load without error has recorded and
\* resolved: a declaration it recorded is in the bucket of the unresolved
\* ones or has a _group, and no declaration of any cog is left that a pass
\* would attach to a top-level group.
BookkeepingInOneStep ==
  /\ Bookkeeping' # Bookkeeping =>
        /\ \E cog \in Cogs, op \in {"add", "remove"} : Ends(op, cog)
        /\ inflight' \subseteq inflight
        /\ result'.op \in {"add", "remove"}
  /\ inflight' \ inflight # {} => UNCHANGED <<Bookkeeping, history>>
  /\ \A cog \in Cogs :
        (installed /\ Ends("remove", cog) /\ result'.err = NoErr) =>
           /\ ~DictHas(commands', cog)
           /\ ~DictHas(not_found', cog)
           /\ \A d \in Decls : InBucket(commands, cog, d) => sub_group'[d] = NoRef
  /\ \A cog \in Cogs :
        (installed /\ Ends("add", cog) /\ result'.err = NoErr) =>
           \A d \in Decls :
              /\ Recorded(cog, d) =>
                    InBucket(not_found', cog, d) \/ sub_group'[d] # NoRef
              /\ ~Attachable(d)'

\* C26: the bookkeeping of one event is atomic with respect to other events:
\* the only suspension points of a load or an unload are inside the original
\* add_cog and remove_cog, so recording and the resolution pass, and on an
\* unload detaching and dropping the bucket, are one step that no other event
\* comes between; and when loads and unloads of the same cog that were
\* suspended there have all completed, no cog that is not loaded has a bucket
\* or an attachment.
C26_AtomicBookkeeping ==
  /\ []OverlapLeavesNoResidue
  /\ [][BookkeepingInOneStep]_vars

\* A load of UserInfo that was resumed while its unload was suspended has
\* failed in the original, the unload has completed after it, and UserInfo
\* is not loaded.
C26_Witness ==
  /\ installed
  /\ inflight = {}
  /\ "UserInfo" \notin loaded
  /\ \E i \in 1..Len(history) : \E kind \in {"new", "same"} :
        /\ history[i] = <<"add", "UserInfo", kind, {"remove"}>>
        /\ \E j \in (i + 1)..Len(history) : history[j] = <<"remove", "UserInfo", "", {}>>

=============================================================================
